---- MODULE Spec2Model ----
(***************************************************************************)
(* A model of the module orchestrator of src/src/Kernel.cpp: the registry  *)
(* (add / remove / find), the dependency graph and the Kahn-style sort,    *)
(* and the controller / worker state machine around the atomic status.     *)
(***************************************************************************)
EXTENDS Integers, Sequences, FiniteSets, TLC

\* ------------------------------------------------------------------ bounds
\* Longest dependency list the controller hands to add().
MaxDeps == 1
\* Longest dependency list of the registries the sort is checked on alone.
MaxSortDeps == 2
\* Calls (add, remove, start, stop, ~Kernel) made on the Kernel in one run.
MaxCalls == 4
\* Tick passes of a worker that hookLog records; later passes run unrecorded.
MaxPasses == 1

\* ------------------------------------------------------------ program values
nullptr == "nullptr"

\* The module names in use.
Names == {"A", "B", "C"}

\* Module objects; a2 is a second module carrying the name A.
Objs == {"a", "b", "c", "a2"}

\* Kernel::Module::name()
name(o) == CASE o = "a" -> "A" [] o = "b" -> "B" [] o = "c" -> "C" [] o = "a2" -> "A"

\* Kernel::Status
Status == {"IDLE", "STARTING", "RUNNING"}

\* Kernel::DependencyList values a caller passes to add().
DependencyLists(max) == UNION {[1..n -> Names] : n \in 0..max}

\* The threads start() can ever construct: the second reset() of kernelThread
\* destroys a joinable std::thread, which ends the process.
Workers == {"w1", "w2"}

VARIABLES
  status,                  \* KernelImpl::status
  modules,                 \* KernelImpl::modules
  modulesAndDependencies,  \* KernelImpl::modulesAndDependencies
  kernelThread,            \* KernelImpl::kernelThread (nullptr or a worker)
  cpc,                     \* the controller's position
  ret,                     \* what the controller's last call returned
  worker,                  \* each worker thread's position and locals
  hookLog,                 \* the init(), tick() and halt() calls each worker made, in order
  aborted,                 \* std::terminate() was called
  calls                    \* the calls made on the Kernel so far

vars == <<status, modules, modulesAndDependencies, kernelThread, cpc, ret,
          worker, hookLog, aborted, calls>>

\* ----------------------------------------------------------------- helpers
Range(s) == {s[i] : i \in DOMAIN s}

Max(S) == CHOOSE x \in S : \A y \in S : y <= x

Min(S) == CHOOSE x \in S : \A y \in S : x <= y

RECURSIVE Flatten(_)
Flatten(ss) == IF ss = <<>> THEN <<>> ELSE Head(ss) \o Flatten(Tail(ss))

Reverse(s) == [i \in 1..Len(s) |-> s[Len(s) + 1 - i]]

\* The removal as it would be if it dropped back() without the swap.
PopBackOnly(s, i) == SubSeq(s, 1, Len(s) - 1)

\* vector: swap element i with back(), then pop_back()
SwapPop(s, i) == [j \in 1..(Len(s) - 1) |-> IF j = i THEN s[Len(s)] ELSE s[j]]

\* ------------------------------------------------------------- createGraph
\* moduleMap[module->name()] = module: a later entry overwrites an earlier one.
moduleMap(mad, n) ==
  LET S == {i \in DOMAIN mad : name(mad[i][1]) = n}
  IN  IF S = {} THEN nullptr ELSE mad[Max(S)][1]

\* vertexMap[module]: the vertex (index into moduleGraph) of a module.
vertexMap(mad, m) == Max({i \in DOMAIN mad : mad[i][1] = m})

\* The (module index, dependency name) pairs in the order the second loop
\* of createGraph visits them.
DependencyPairs(mad) ==
  Flatten([i \in DOMAIN mad |->
             [j \in DOMAIN mad[i][2] |-> <<i, mad[i][2][j]>>]])

\* dependency->adjList.push_back(vertex), for every pair resolving to d.
AdjListOf(mad, d) ==
  LET hits == SelectSeq(DependencyPairs(mad),
                        LAMBDA p : vertexMap(mad, moduleMap(mad, p[2])) = d)
  IN  [k \in DOMAIN hits |-> hits[k][1]]

\* createGraph as it would be if a dependency name missing from moduleMap
\* were skipped instead of failing the call.
createGraphSkipMissing(mad) ==
  LET known(p) == moduleMap(mad, p[2]) # nullptr
      adj(d) ==
        LET hits == SelectSeq(DependencyPairs(mad),
                              LAMBDA p : known(p) /\ vertexMap(mad, moduleMap(mad, p[2])) = d)
        IN  [k \in DOMAIN hits |-> hits[k][1]]
  IN  [ok |-> TRUE,
       moduleGraph |-> [d \in DOMAIN mad |-> [value |-> mad[d][1], adjList |-> adj(d)]]]

\* createGraph: a Vertex per entry, then the edges; false on the first
\* dependency name that is not in moduleMap.
createGraph(mad) ==
  LET pairs == DependencyPairs(mad)
      found == \A k \in DOMAIN pairs : moduleMap(mad, pairs[k][2]) # nullptr
  IN  IF found
      THEN [ok |-> TRUE,
            moduleGraph |-> [d \in DOMAIN mad |->
                               [value |-> mad[d][1], adjList |-> AdjListOf(mad, d)]]]
      ELSE [ok |-> FALSE, moduleGraph |-> <<>>]

\* -------------------------------------------------------------------- sort
\* Lines 88-99: every vertex that is in no adjList.
ReadyVertices(g) ==
  {v \in DOMAIN g : \A n \in DOMAIN g : v \notin Range(g[n].adjList)}

\* The loop body as it would be if every vertex of the taken adjList were
\* inserted without the scan for remaining edges to it.
SortTakeNoScan(g, vertices, v) ==
  [moduleGraph |-> [g EXCEPT ![v].adjList = <<>>],
   vertices |-> (vertices \ {v}) \cup Range(g[v].adjList)]

\* The loop body as it would be if the scan ran before vertex->adjList.clear().
SortTakeScanBeforeClear(g, vertices, v) ==
  LET freed == {m \in Range(g[v].adjList) :
                  \A o \in DOMAIN g : m \notin Range(g[o].adjList)}
  IN  [moduleGraph |-> [g EXCEPT ![v].adjList = <<>>],
       vertices |-> (vertices \ {v}) \cup freed]

\* The loop body as it would be if it erased one edge of the taken vertex
\* instead of clearing its adjList.
SortTakeErasesOneEdge(g, vertices, v) ==
  LET adjList == g[v].adjList
      g2      == [g EXCEPT ![v].adjList = IF adjList = <<>> THEN <<>> ELSE Tail(adjList)]
      freed   == {m \in Range(adjList) :
                    \A o \in DOMAIN g2 : m \notin Range(g2[o].adjList)}
  IN  [moduleGraph |-> g2, vertices |-> (vertices \ {v}) \cup freed]

\* Lines 101-119: one iteration of the while loop taking vertex v.
SortTake(g, vertices, v) ==
  LET adjList == g[v].adjList
      g2      == [g EXCEPT ![v].adjList = <<>>]
      freed   == {m \in Range(adjList) :
                    \A o \in DOMAIN g2 : m \notin Range(g2[o].adjList)}
  IN  [moduleGraph |-> g2, vertices |-> (vertices \ {v}) \cup freed]

\* The final check as it would be if it looked at the first vertex only.
CycleLeftFirstOnly(g) == g # <<>> /\ g[1].adjList # <<>>

\* Lines 121-126: some adjList is left.
CycleLeft(g) == \E m \in DOMAIN g : g[m].adjList # <<>>

\* Lines 100-128 run to the end from (g, vertices, sm): every result the
\* loop can produce, over all the orders in which the unordered set can hand
\* out its elements.
RECURSIVE SortRuns(_, _, _)
SortRuns(g, vertices, sm) ==
  IF vertices = {}
  THEN IF CycleLeft(g) THEN {[ok |-> FALSE, sortedModules |-> <<>>]}
       ELSE {[ok |-> TRUE, sortedModules |-> sm]}
  ELSE UNION {LET t == SortTake(g, vertices, v)
              IN  SortRuns(t.moduleGraph, t.vertices, Append(sm, g[v].value)) :
              v \in vertices}

\* sort: every result it can return for a registry.
sort(mad) ==
  LET r == createGraph(mad)
  IN  IF r.ok THEN SortRuns(r.moduleGraph, ReadyVertices(r.moduleGraph), <<>>)
      ELSE {[ok |-> FALSE, sortedModules |-> <<>>]}

\* ------------------------------------------------------------------- state
\* A thread not yet constructed, and the locals of KernelImpl::start and sort.
WorkerInit ==
  [pc |-> "unspawned", moduleGraph |-> <<>>, vertices |-> {}, sm |-> <<>>,
   sortedModules |-> <<>>, itr |-> 0, passes |-> 0, result |-> "none"]

Init ==
  /\ status = "IDLE"
  /\ modules = <<>>
  /\ modulesAndDependencies = <<>>
  /\ kernelThread = nullptr
  /\ cpc = "idle"
  /\ ret = [op |-> "none", val |-> FALSE]
  /\ worker = [w \in Workers |-> WorkerInit]
  /\ hookLog = [w \in Workers |-> <<>>]
  /\ aborted = FALSE
  /\ calls = 0

registry == <<modules, modulesAndDependencies>>

\* The modules worker w called a hook on, in call order.
CalledBy(w, hook) ==
  LET hits == SelectSeq(hookLog[w], LAMBDA h : h[1] = hook)
  IN  [k \in DOMAIN hits |-> hits[k][2]]

\* The modules a hook was called on, the first thread's calls first.
Called(hook) == CalledBy("w1", hook) \o CalledBy("w2", hook)

\* No hook was called on any module.
NoHookCalled == \A w \in Workers : hookLog[w] = <<>>

\* ---------------------------------------------------------------- registry
\* find as it would be if it compared the first module's name only.
findFirstOnly(n) ==
  IF modules # <<>> /\ name(modules[1]) = n THEN modules[1] ELSE nullptr

\* Kernel::find
find(n) ==
  LET S == {i \in DOMAIN modules : name(modules[i]) = n}
  IN  IF S = {} THEN nullptr ELSE modules[Min(S)]

\* add as it would be without the check of status.
AddWhileNotIdle(o, deps) ==
  /\ ~aborted
  /\ cpc = "idle"
  /\ calls < MaxCalls
  /\ calls' = calls + 1
  /\ o \notin Range(modules)
  /\ IF \E i \in DOMAIN modules : name(modules[i]) = name(o)
     THEN /\ ret' = [op |-> "add", val |-> FALSE]
          /\ UNCHANGED <<modules, modulesAndDependencies>>
     ELSE /\ modulesAndDependencies' = Append(modulesAndDependencies, <<o, deps>>)
          /\ modules' = Append(modules, o)
          /\ ret' = [op |-> "add", val |-> TRUE]
  /\ UNCHANGED <<status, kernelThread, cpc, worker, hookLog, aborted>>

\* Kernel::add, called by the controller with a module it owns.
Add(o, deps) ==
  /\ ~aborted
  /\ cpc = "idle"
  /\ calls < MaxCalls
  /\ calls' = calls + 1
  /\ o \notin Range(modules)
  /\ IF status # "IDLE"
     THEN /\ ret' = [op |-> "add", val |-> FALSE]
          /\ UNCHANGED registry
     ELSE IF find(name(o)) # nullptr
     THEN /\ ret' = [op |-> "add", val |-> FALSE]
          /\ UNCHANGED registry
     ELSE /\ modulesAndDependencies' = Append(modulesAndDependencies, <<o, deps>>)
          /\ modules' = Append(modules, o)
          /\ ret' = [op |-> "add", val |-> TRUE]
  /\ UNCHANGED <<status, kernelThread, cpc, worker, hookLog, aborted>>

\* remove as it would be if it left modulesAndDependencies alone.
RemoveKeepsDependencies(n) ==
  /\ ~aborted
  /\ cpc = "idle"
  /\ calls < MaxCalls
  /\ calls' = calls + 1
  /\ IF status # "IDLE"
     THEN /\ ret' = [op |-> "remove", val |-> nullptr]
          /\ UNCHANGED registry
     ELSE LET S == {i \in DOMAIN modules : name(modules[i]) = n}
          IN  IF S = {}
              THEN /\ ret' = [op |-> "remove", val |-> nullptr]
                   /\ UNCHANGED registry
              ELSE LET i == Min(S)
                   IN  /\ UNCHANGED modulesAndDependencies
                       /\ modules' = SwapPop(modules, i)
                       /\ ret' = [op |-> "remove", val |-> modules[i]]
  /\ UNCHANGED <<status, kernelThread, cpc, worker, hookLog, aborted>>

\* Kernel::remove
Remove(n) ==
  /\ ~aborted
  /\ cpc = "idle"
  /\ calls < MaxCalls
  /\ calls' = calls + 1
  /\ IF status # "IDLE"
     THEN /\ ret' = [op |-> "remove", val |-> nullptr]
          /\ UNCHANGED registry
     ELSE LET S == {i \in DOMAIN modules : name(modules[i]) = n}
          IN  IF S = {}
              THEN /\ ret' = [op |-> "remove", val |-> nullptr]
                   /\ UNCHANGED registry
              ELSE LET i == Min(S)
                   IN  /\ modulesAndDependencies' =
                            IF name(modulesAndDependencies[i][1]) = n
                            THEN SwapPop(modulesAndDependencies, i)
                            ELSE modulesAndDependencies
                       /\ modules' = SwapPop(modules, i)
                       /\ ret' = [op |-> "remove", val |-> modules[i]]
  /\ UNCHANGED <<status, kernelThread, cpc, worker, hookLog, aborted>>

\* -------------------------------------------------------------- controller
\* Kernel::stop
Stop ==
  /\ ~aborted
  /\ cpc = "idle"
  /\ calls < MaxCalls
  /\ calls' = calls + 1
  /\ status' = "IDLE"
  /\ ret' = [op |-> "stop", val |-> FALSE]
  /\ UNCHANGED <<registry, kernelThread, cpc, worker, hookLog, aborted>>

\* Kernel::start, line 269
StartStore ==
  /\ ~aborted
  /\ cpc = "idle"
  /\ calls < MaxCalls
  /\ calls' = calls + 1
  /\ status' = "STARTING"
  /\ cpc' = "start_thread"
  /\ UNCHANGED <<registry, kernelThread, ret, worker, hookLog, aborted>>

\* The thread a call of start() constructs.
NewThread == IF kernelThread = nullptr THEN "w1" ELSE "w2"

\* Kernel::start, line 270: new std::thread(&KernelImpl::start, ...)
StartThread ==
  /\ ~aborted
  /\ cpc = "start_thread"
  /\ worker' = [worker EXCEPT ![NewThread].pc = "createGraph"]
  /\ cpc' = "start_reset"
  /\ UNCHANGED <<status, registry, kernelThread, ret, hookLog, aborted, calls>>

\* Kernel::start, line 270: kernelThread.reset(...) destroys the thread object
\* it held; that one was never joined, so its destructor calls std::terminate.
StartReset ==
  /\ ~aborted
  /\ cpc = "start_reset"
  /\ IF kernelThread # nullptr
     THEN /\ aborted' = TRUE
          /\ UNCHANGED <<kernelThread, cpc>>
     ELSE /\ kernelThread' = NewThread
          /\ cpc' = "start_wait"
          /\ UNCHANGED aborted
  /\ UNCHANGED <<status, registry, ret, worker, hookLog, calls>>

\* Kernel::start, lines 272-274: leave the loop once status is not STARTING
StartWait ==
  /\ ~aborted
  /\ cpc = "start_wait"
  /\ status # "STARTING"
  /\ cpc' = "start_return"
  /\ UNCHANGED <<status, registry, kernelThread, ret, worker, hookLog, aborted, calls>>

\* Kernel::start, line 275
StartReturn ==
  /\ ~aborted
  /\ cpc = "start_return"
  /\ ret' = [op |-> "start", val |-> (status = "RUNNING")]
  /\ cpc' = "idle"
  /\ UNCHANGED <<status, registry, kernelThread, worker, hookLog, aborted, calls>>

\* ~KernelImpl line 143: status.store(IDLE)
DtorStore ==
  /\ ~aborted
  /\ cpc = "idle"
  /\ calls < MaxCalls
  /\ calls' = calls + 1
  /\ status' = "IDLE"
  /\ cpc' = "dtor_join"
  /\ UNCHANGED <<registry, kernelThread, ret, worker, hookLog, aborted>>

\* ~KernelImpl line 144: kernelThread->join(). Through a null kernelThread the
\* call is undefined: the process faults, or the call does nothing and returns.
DtorJoin ==
  /\ ~aborted
  /\ cpc = "dtor_join"
  /\ IF kernelThread = nullptr
     THEN cpc' \in {"dtor_fault", "released"}
     ELSE /\ worker[kernelThread].pc = "done"
          /\ cpc' = "released"
  /\ UNCHANGED <<status, registry, kernelThread, ret, worker, hookLog, aborted, calls>>

\* ------------------------------------------------------------------ worker
\* KernelImpl::start line 160 into sort lines 82-99
WCreateGraph(w) ==
  /\ ~aborted
  /\ worker[w].pc = "createGraph"
  /\ LET r == createGraph(modulesAndDependencies)
     IN  IF r.ok
         THEN worker' = [worker EXCEPT
                ![w].pc = "sortLoop",
                ![w].moduleGraph = r.moduleGraph,
                ![w].vertices = ReadyVertices(r.moduleGraph)]
         ELSE worker' = [worker EXCEPT ![w].pc = "storeIdle",
                                       ![w].result = "unresolved"]
  /\ UNCHANGED <<status, registry, kernelThread, cpc, ret, hookLog, aborted, calls>>

\* sort lines 100-120: *vertices.begin() is any element of the unordered set
WSortTake(w) ==
  /\ ~aborted
  /\ worker[w].pc = "sortLoop"
  /\ \E v \in worker[w].vertices :
       LET t == SortTake(worker[w].moduleGraph, worker[w].vertices, v)
       IN  worker' = [worker EXCEPT
             ![w].sm = Append(@, worker[w].moduleGraph[v].value),
             ![w].moduleGraph = t.moduleGraph,
             ![w].vertices = t.vertices]
  /\ UNCHANGED <<status, registry, kernelThread, cpc, ret, hookLog, aborted, calls>>

\* sort lines 121-128 and KernelImpl::start line 160: the locals of sort end
WSortEnd(w) ==
  /\ ~aborted
  /\ worker[w].pc = "sortLoop"
  /\ worker[w].vertices = {}
  /\ IF CycleLeft(worker[w].moduleGraph)
     THEN worker' = [worker EXCEPT ![w].pc = "storeIdle", ![w].result = "cycle",
                                   ![w].moduleGraph = <<>>, ![w].sm = <<>>]
     ELSE worker' = [worker EXCEPT ![w].pc = "init", ![w].result = "sorted",
                                   ![w].sortedModules = worker[w].sm,
                                   ![w].moduleGraph = <<>>, ![w].sm = <<>>,
                                   ![w].itr = 1]
  /\ UNCHANGED <<status, registry, kernelThread, cpc, ret, hookLog, aborted, calls>>

\* KernelImpl::start lines 161-162
WStoreIdle(w) ==
  /\ ~aborted
  /\ worker[w].pc = "storeIdle"
  /\ status' = "IDLE"
  /\ worker' = [worker EXCEPT ![w].pc = "done"]
  /\ UNCHANGED <<registry, kernelThread, cpc, ret, hookLog, aborted, calls>>

\* KernelImpl::start lines 169-171. Module::init is virtual: the default does
\* nothing, an override may call kernel()->stop() (Kernel.hpp lines 35 and 40).
WInit(w) ==
  /\ ~aborted
  /\ worker[w].pc = "init"
  /\ worker[w].itr <= Len(worker[w].sortedModules)
  /\ hookLog' = [hookLog EXCEPT
                   ![w] = Append(@, <<"init", worker[w].sortedModules[worker[w].itr]>>)]
  /\ worker' = [worker EXCEPT ![w].itr = @ + 1]
  /\ \/ UNCHANGED <<status, calls>>
     \/ /\ calls < MaxCalls
        /\ calls' = calls + 1
        /\ status' = "IDLE"
  /\ UNCHANGED <<registry, kernelThread, cpc, ret, aborted>>

\* The store of RUNNING as it would be if the init loop ended one module early.
WStoreRunningEarly(w) ==
  /\ ~aborted
  /\ worker[w].pc = "init"
  /\ worker[w].itr >= Len(worker[w].sortedModules)
  /\ status' = "RUNNING"
  /\ worker' = [worker EXCEPT ![w].pc = "while", ![w].itr = 0]
  /\ UNCHANGED <<modules, modulesAndDependencies, kernelThread, cpc, ret, hookLog,
                 aborted, calls>>

\* KernelImpl::start line 172
WStoreRunning(w) ==
  /\ ~aborted
  /\ worker[w].pc = "init"
  /\ worker[w].itr > Len(worker[w].sortedModules)
  /\ status' = "RUNNING"
  /\ worker' = [worker EXCEPT ![w].pc = "while", ![w].itr = 0]
  /\ UNCHANGED <<registry, kernelThread, cpc, ret, hookLog, aborted, calls>>

\* KernelImpl::start line 173
WWhile(w) ==
  /\ ~aborted
  /\ worker[w].pc = "while"
  /\ IF status = "RUNNING"
     THEN worker' = [worker EXCEPT ![w].pc = "tick", ![w].itr = 1]
     ELSE worker' = [worker EXCEPT ![w].pc = "halt",
                                   ![w].itr = Len(worker[w].sortedModules)]
  /\ UNCHANGED <<status, registry, kernelThread, cpc, ret, hookLog, aborted, calls>>

\* The tick loop as it would be if it walked sortedModules backwards.
WTickBackwards(w) ==
  /\ ~aborted
  /\ worker[w].pc = "tick"
  /\ worker[w].itr <= Len(worker[w].sortedModules)
  /\ hookLog' = IF worker[w].passes < MaxPasses
                THEN [hookLog EXCEPT
                        ![w] = Append(@, <<"tick", worker[w].sortedModules[
                                 Len(worker[w].sortedModules) + 1 - worker[w].itr]>>)]
                ELSE hookLog
  /\ worker' = [worker EXCEPT ![w].itr = @ + 1]
  /\ UNCHANGED <<status, registry, kernelThread, cpc, ret, aborted, calls>>

\* The tick loop as it would be if it read status before every module.
WTickReadsStatus(w) ==
  /\ ~aborted
  /\ worker[w].pc = "tick"
  /\ worker[w].itr <= Len(worker[w].sortedModules)
  /\ IF status = "RUNNING"
     THEN /\ hookLog' = IF worker[w].passes < MaxPasses
                        THEN [hookLog EXCEPT
                                ![w] = Append(@, <<"tick", worker[w].sortedModules[worker[w].itr]>>)]
                        ELSE hookLog
          /\ worker' = [worker EXCEPT ![w].itr = @ + 1]
     ELSE /\ worker' = [worker EXCEPT ![w].pc = "halt",
                                       ![w].itr = Len(worker[w].sortedModules)]
          /\ UNCHANGED hookLog
  /\ UNCHANGED <<status, registry, kernelThread, cpc, ret, aborted, calls>>

\* KernelImpl::start lines 174-176
WTick(w) ==
  /\ ~aborted
  /\ worker[w].pc = "tick"
  /\ worker[w].itr <= Len(worker[w].sortedModules)
  /\ hookLog' = IF worker[w].passes < MaxPasses
                THEN [hookLog EXCEPT
                        ![w] = Append(@, <<"tick", worker[w].sortedModules[worker[w].itr]>>)]
                ELSE hookLog
  /\ worker' = [worker EXCEPT ![w].itr = @ + 1]
  /\ UNCHANGED <<status, registry, kernelThread, cpc, ret, aborted, calls>>

\* KernelImpl::start line 177
WYield(w) ==
  /\ ~aborted
  /\ worker[w].pc = "tick"
  /\ worker[w].itr > Len(worker[w].sortedModules)
  /\ worker' = [worker EXCEPT ![w].pc = "while", ![w].itr = 0, ![w].passes = Min({@ + 1, MaxPasses})]
  /\ UNCHANGED <<status, registry, kernelThread, cpc, ret, hookLog, aborted, calls>>

\* KernelImpl::start lines 179-181
WHalt(w) ==
  /\ ~aborted
  /\ worker[w].pc = "halt"
  /\ worker[w].itr >= 1
  /\ hookLog' = [hookLog EXCEPT
                   ![w] = Append(@, <<"halt", worker[w].sortedModules[worker[w].itr]>>)]
  /\ worker' = [worker EXCEPT ![w].itr = @ - 1]
  /\ UNCHANGED <<status, registry, kernelThread, cpc, ret, aborted, calls>>

\* KernelImpl::start lines 182-183: the thread ends, sortedModules with it
WFinish(w) ==
  /\ ~aborted
  /\ worker[w].pc = "halt"
  /\ worker[w].itr = 0
  /\ worker' = [worker EXCEPT ![w].pc = "done", ![w].sortedModules = <<>>]
  /\ UNCHANGED <<status, registry, kernelThread, cpc, ret, hookLog, aborted, calls>>

WorkerStep(w) ==
  \/ WCreateGraph(w)
  \/ WSortTake(w)
  \/ WSortEnd(w)
  \/ WStoreIdle(w)
  \/ WInit(w)
  \/ WStoreRunning(w)
  \/ WWhile(w)
  \/ WTick(w)
  \/ WYield(w)
  \/ WHalt(w)
  \/ WFinish(w)

ControllerStep ==
  \/ \E o \in Objs, deps \in DependencyLists(MaxDeps) : Add(o, deps)
  \/ \E n \in Names : Remove(n)
  \/ Stop
  \/ StartStore
  \/ StartThread
  \/ StartReset
  \/ StartWait
  \/ StartReturn
  \/ DtorStore
  \/ DtorJoin

Next ==
  \/ ControllerStep
  \/ \E w \in Workers : WorkerStep(w)

Spec == Init /\ [][Next]_vars

\* ------------------------------------------------- the sort checked alone
\* The registries add() can build: modules with pairwise distinct names
\* (one module per name), each with a dependency list.
ModuleSeqs ==
  {s \in UNION {[1..n -> Objs \ {"a2"}] : n \in 0..Cardinality(Names)} :
     \A i, j \in DOMAIN s : i # j => name(s[i]) # name(s[j])}

\* A worker that start() has just spawned on one of these registries.
InitSort ==
  /\ \E s \in ModuleSeqs :
       \E d \in [DOMAIN s -> DependencyLists(MaxSortDeps)] :
         /\ modules = s
         /\ modulesAndDependencies = [i \in DOMAIN s |-> <<s[i], d[i]>>]
         /\ calls = Len(s) + 1
  /\ status = "STARTING"
  /\ kernelThread = "w1"
  /\ cpc = "start_wait"
  /\ ret = [op |-> "none", val |-> FALSE]
  /\ worker = [w \in Workers |->
                 IF w = "w1" THEN [WorkerInit EXCEPT !.pc = "createGraph"]
                 ELSE WorkerInit]
  /\ hookLog = [w \in Workers |-> <<>>]
  /\ aborted = FALSE

NextSort ==
  \/ WCreateGraph("w1")
  \/ WSortTake("w1")
  \/ WSortEnd("w1")

SortSpec == InitSort /\ [][NextSort]_vars

\* ------------------------------------------------- what the claims speak of
\* The dependency names entry i of a registry declares.
DepNames(mad, i) == Range(mad[i][2])

\* Every declared dependency name is the name of a registered module.
Resolves(mad) ==
  \A i \in DOMAIN mad : \A n \in DepNames(mad, i) :
    \E k \in DOMAIN mad : name(mad[k][1]) = n

\* <<i, k>>: entry i declares the name of entry k as a dependency.
DependsOn(mad) ==
  {p \in (DOMAIN mad) \X (DOMAIN mad) : name(mad[p[2]][1]) \in DepNames(mad, p[1])}

\* The pairs linked by a chain of at most n + 1 pairs of R.
RECURSIVE Closure(_, _)
Closure(R, n) ==
  IF n = 0 THEN R
  ELSE LET C == Closure(R, n - 1)
           joined == {pr \in C \X R : pr[1][2] = pr[2][1]}
       IN  C \cup {<<pr[1][1], pr[2][2]>> : pr \in joined}

\* Some module depends, directly or through others, on itself.
Cyclic(mad) ==
  \E i \in DOMAIN mad : <<i, i>> \in Closure(DependsOn(mad), Len(mad))

\* In order, x comes strictly before y, both present.
Before(order, x, y) ==
  /\ \E p, q \in DOMAIN order : order[p] = x /\ order[q] = y /\ p < q
  /\ \A p, q \in DOMAIN order : (order[p] = x /\ order[q] = y) => p < q

\* order places every dependency of a registry before its dependents.
DependenciesFirst(mad, order) ==
  \A p \in DependsOn(mad) : Before(order, mad[p[2]][1], mad[p[1]][1])

\* order holds every module of a registry exactly once.
EveryModuleOnce(mad, order) ==
  /\ Len(order) = Len(mad)
  /\ \A i \in DOMAIN mad : Cardinality({p \in DOMAIN order : order[p] = mad[i][1]}) = 1

\* The sort of worker w has returned.
SortReturned(w) == worker[w].pc \notin {"unspawned", "createGraph", "sortLoop"}

\* C1: on a registry whose dependency names all resolve and whose graph is
\* acyclic, whatever ready vertex the sorter takes at each step, the order sort
\* returns places each dependency strictly before every module declaring it.
C1_DependenciesBeforeDependents ==
  (/\ worker["w1"].result = "sorted"
   /\ Resolves(modulesAndDependencies)
   /\ ~Cyclic(modulesAndDependencies))
  => DependenciesFirst(modulesAndDependencies, worker["w1"].sortedModules)

\* A sort that returned an order for three modules, one of them declaring
\* the two others.
C1_Witness ==
  /\ worker["w1"].result = "sorted"
  /\ Len(modulesAndDependencies) = 3
  /\ ~Cyclic(modulesAndDependencies)
  /\ \E i \in DOMAIN modulesAndDependencies :
       Cardinality({p \in DependsOn(modulesAndDependencies) : p[1] = i}) = 2
  /\ DependenciesFirst(modulesAndDependencies, worker["w1"].sortedModules)

\* C2: on a registry whose dependency names all resolve and whose graph is
\* acyclic, sort returns true and the sorted order holds every registered
\* module exactly once, whatever ready vertex is taken at each step.
C2_SortSucceedsWithEveryModuleOnce ==
  (/\ SortReturned("w1")
   /\ Resolves(modulesAndDependencies)
   /\ ~Cyclic(modulesAndDependencies))
  => /\ worker["w1"].result = "sorted"
     /\ EveryModuleOnce(modulesAndDependencies, worker["w1"].sortedModules)

\* A sort of three independent modules (all ready at once) that returned them
\* in another order than the registry's.
C2_Witness ==
  /\ worker["w1"].result = "sorted"
  /\ Len(modulesAndDependencies) = 3
  /\ DependsOn(modulesAndDependencies) = {}
  /\ worker["w1"].sortedModules[1] = modulesAndDependencies[3][1]
  /\ EveryModuleOnce(modulesAndDependencies, worker["w1"].sortedModules)

\* -------------------------------------------------------- start() returning
\* C3: when the registered dependency graph contains a cycle (a self
\* dependency, a two-module cycle, a longer one, with or without other
\* modules), start() returns false, status is IDLE when it returns, and no
\* init, tick or halt has been called on any module.
C3_CycleRejected ==
  [][(/\ cpc = "start_return"
      /\ cpc' = "idle"
      /\ Cyclic(modulesAndDependencies))
     => (/\ ret' = [op |-> "start", val |-> FALSE]
         /\ status' = "IDLE"
         /\ NoHookCalled')]_vars

\* start() has returned false on three modules forming one cycle of length 3.
C3_Witness ==
  /\ cpc = "idle"
  /\ ret = [op |-> "start", val |-> FALSE]
  /\ worker["w1"].result = "cycle"
  /\ status = "IDLE"
  /\ NoHookCalled
  /\ Len(modulesAndDependencies) = 3
  /\ \A i \in DOMAIN modulesAndDependencies :
       /\ <<i, i>> \in Closure(DependsOn(modulesAndDependencies), 3)
       /\ <<i, i>> \notin Closure(DependsOn(modulesAndDependencies), 1)

\* C4: when some registered module declares a dependency name no registered
\* module carries, start() returns false, status is IDLE when it returns, and
\* no init has been called on any module, also not on the modules whose own
\* dependencies all resolve.
C4_UnknownDependencyRejected ==
  [][(/\ cpc = "start_return"
      /\ cpc' = "idle"
      /\ ~Resolves(modulesAndDependencies))
     => (/\ ret' = [op |-> "start", val |-> FALSE]
         /\ status' = "IDLE"
         /\ Called("init")' = <<>>)]_vars

\* start() has returned false on a registry where one module's dependency is
\* registered and another module's is not.
C4_Witness ==
  /\ cpc = "idle"
  /\ ret = [op |-> "start", val |-> FALSE]
  /\ worker["w1"].result = "unresolved"
  /\ status = "IDLE"
  /\ NoHookCalled
  /\ \E i \in DOMAIN modulesAndDependencies :
       /\ DepNames(modulesAndDependencies, i) # {}
       /\ \A n \in DepNames(modulesAndDependencies, i) :
            \E k \in DOMAIN modulesAndDependencies :
              name(modulesAndDependencies[k][1]) = n

\* C5: when start() returns true, every registered module has had init
\* called exactly once, the init calls were made in an order that places
\* every dependency before its dependents, and status is RUNNING.
C5_StartedMeansEveryModuleInitialised ==
  [][(/\ cpc = "start_return"
      /\ cpc' = "idle"
      /\ ret'.val = TRUE)
     => (/\ status' = "RUNNING"
         /\ EveryModuleOnce(modulesAndDependencies, Called("init"))
         /\ DependenciesFirst(modulesAndDependencies, Called("init")))]_vars

\* start() has returned true on three modules with a dependency among them.
C5_Witness ==
  /\ cpc = "idle"
  /\ ret = [op |-> "start", val |-> TRUE]
  /\ status = "RUNNING"
  /\ Len(modulesAndDependencies) = 3
  /\ DependsOn(modulesAndDependencies) # {}
  /\ EveryModuleOnce(modulesAndDependencies, Called("init"))

\* ------------------------------------------------------------ the registry
\* The controller made a call of add() or remove() in this step.
RegistryCall ==
  /\ cpc = "idle"
  /\ calls' = calls + 1
  /\ ret'.op \in {"add", "remove"}
  /\ UNCHANGED <<status, cpc, worker, hookLog>>

\* C9: add() and remove() called while status is not IDLE fail (add returns
\* false, remove returns nullptr) and leave both registry arrays as they were.
C9_NoMutationUnlessIdle ==
  [][(status # "IDLE" /\ RegistryCall)
     => (/\ registry' = registry
         /\ ret'.op = "add" => ret'.val = FALSE
         /\ ret'.op = "remove" => ret'.val = nullptr)]_vars

\* add() was refused on a running orchestrator with an empty registry, where
\* no name could have been taken.
C9_Witness ==
  /\ cpc = "idle"
  /\ status = "RUNNING"
  /\ ret = [op |-> "add", val |-> FALSE]
  /\ modules = <<>>
  /\ modulesAndDependencies = <<>>

\* The names of the registered modules are pairwise distinct.
NamesDistinct ==
  /\ Cardinality({name(modules[i]) : i \in DOMAIN modules}) = Len(modules)
  /\ Cardinality({name(modulesAndDependencies[i][1]) : i \in DOMAIN modulesAndDependencies})
       = Len(modulesAndDependencies)

\* Some registered module carries the name of module o.
NameTaken(o) == \E i \in DOMAIN modules : name(modules[i]) = name(o)

\* C10: add() of a module whose name a registered module already carries
\* returns false and leaves the registry as it was, so the names of the
\* registered modules stay pairwise distinct after every call.
C10_DuplicateNameRefused ==
  [][/\ (cpc = "idle" /\ calls' = calls + 1 /\ ret'.op = "add")
        => \/ (ret' = [op |-> "add", val |-> FALSE] /\ registry' = registry)
           \/ \A o \in {x \in Objs : NameTaken(x)} :
                ~ \E deps \in DependencyLists(MaxDeps) : Add(o, deps)
     /\ NamesDistinct']_vars

\* add() was refused on an orchestrator that was never started (so status
\* was IDLE) and holds two modules.
C10_Witness ==
  /\ cpc = "idle"
  /\ kernelThread = nullptr
  /\ status = "IDLE"
  /\ ret = [op |-> "add", val |-> FALSE]
  /\ Len(modules) = 2

\* ------------------------------------------------------------ the worker(s)
\* The threads that were constructed and have not ended.
ActiveWorkers == {w \in Workers : worker[w].pc \notin {"unspawned", "done"}}

\* C7: after start() returned false because of an unregistered dependency
\* name, and the missing module was added, the next start() is not ended by
\* the worker the first start() left behind.
C7_RestartAfterFailedStart ==
  (/\ worker["w1"].result = "unresolved"
   /\ worker["w2"].pc # "unspawned"
   /\ Resolves(modulesAndDependencies)
   /\ ~Cyclic(modulesAndDependencies))
  => ~aborted

\* C8: in every reachable state at most one worker is active.
C8_AtMostOneWorker == Cardinality(ActiveWorkers) <= 1

\* ---------------------------------------------------------------- liveness
\* The worker threads and a controller inside start() keep being scheduled.
LiveSpec ==
  /\ Spec
  /\ \A w \in Workers : WF_vars(WorkerStep(w))
  /\ WF_vars(StartThread \/ StartReset \/ StartWait \/ StartReturn)

\* stop() has just returned on an orchestrator whose start() succeeded and
\* initialised at least one module.
StoppedAfterStart ==
  /\ cpc = "idle"
  /\ ret.op = "stop"
  /\ worker["w1"].result = "sorted"
  /\ worker["w1"].pc \in {"while", "tick", "halt", "done"}
  /\ CalledBy("w1", "init") # <<>>

\* C6: after a successful start() followed by stop(), the worker eventually
\* has called halt on every started module exactly once, in exactly the
\* reverse of the init order, and has terminated.
C6_HaltsInReverseAfterStop ==
  StoppedAfterStart ~>
    (/\ worker["w1"].pc = "done"
     /\ CalledBy("w1", "halt") = Reverse(CalledBy("w1", "init"))
     /\ Called("halt") = CalledBy("w1", "halt"))

\* ------------------------------------------------------------------ teardown
\* Worker w was spawned and has not yet returned from KernelImpl::start.
Active(w) == worker[w].pc \notin {"unspawned", "done"}

\* C11: releasing the orchestrator completes without error, from a state
\* where it was never started as well, and it completes only once every
\* worker that was spawned has finished its halt calls and has terminated.
C11_ReleaseCompletesAfterWorker ==
  /\ cpc # "dtor_fault"
  /\ cpc = "released" => \A w \in Workers : ~Active(w)

\* ------------------------------------------------------------- stop requests
\* A stop() has stored IDLE while the first worker is between its first init
\* call and the end of its tick loop.
StopRequested ==
  /\ worker["w1"].result = "sorted"
  /\ worker["w1"].pc \in {"init", "while", "tick"}
  /\ status = "IDLE"

\* start() was called again after the first worker was spawned.
LaterStart ==
  \/ aborted
  \/ kernelThread # nullptr /\ cpc \in {"start_thread", "start_reset"}

\* C12: a stop() called while the worker is active, in Starting (from an
\* init hook) or in Running, is never lost: unless start() is called again,
\* the worker eventually halts and terminates and status is Idle.
C12_StopNeverLost ==
  StopRequested ~> ((worker["w1"].pc = "done" /\ status = "IDLE") \/ LaterStart)

\* ------------------------------------------------------------ start returns
\* start() has stored STARTING while no worker was running.
StartCalledWithNoWorker == cpc = "start_thread" /\ \A w \in Workers : ~Active(w)

\* Worker w has left Starting by itself: it stored RUNNING after the last
\* init, or stored IDLE for a graph it could not sort.
LeftStarting(w) == worker[w].pc \in {"while", "tick", "halt", "done"}

\* C13: start() called with no worker active eventually returns, and it
\* returns only after the worker it spawned has left Starting, having
\* finished every init and stored Running or rejected the graph and stored
\* Idle.
C13_StartReturnsAfterStarting ==
  /\ [][(cpc = "start_return" /\ cpc' = "idle") => LeftStarting(kernelThread)]_vars
  /\ StartCalledWithNoWorker ~> (cpc = "idle" /\ ret.op = "start")

\* --------------------------------------------------------------- transitions
\* C15: status changes only from Idle to Starting, from Starting to Running,
\* and from any state to Idle; never from Idle to Running, never from
\* Running to Starting.
C15_StatusTransitions ==
  [][status' # status =>
       <<status, status'>> \in {<<"IDLE", "STARTING">>, <<"STARTING", "RUNNING">>,
                               <<"STARTING", "IDLE">>, <<"RUNNING", "IDLE">>}]_vars

\* ------------------------------------------------------------------- remove
\* The registry entries as a set: each module with its dependency-name list.
Entries == Range(modulesAndDependencies)

\* C14: remove(name) in Idle for a registered name returns that module and
\* takes exactly its entry (the module and its own dependency names) out of
\* the registry, every other entry staying as it was up to order; for an
\* unregistered name it returns nullptr and leaves the registry unchanged.
C14_RemoveTakesExactlyOne ==
  [][(cpc = "idle" /\ status = "IDLE" /\ calls' = calls + 1 /\ ret'.op = "remove")
       => \A n \in Names :
            Remove(n) =>
              IF \E i \in DOMAIN modules : name(modules[i]) = n
              THEN LET m == CHOOSE o \in Range(modules) : name(o) = n
                   IN  /\ ret'.val = m
                       /\ Len(modules') = Len(modules) - 1
                       /\ Len(modulesAndDependencies') = Len(modulesAndDependencies) - 1
                       /\ Range(modules') = Range(modules) \ {m}
                       /\ Entries' = {e \in Entries : e[1] # m}
              ELSE ret'.val = nullptr /\ registry' = registry]_vars

\* remove("A") took the first of three entries, the last one moved into its place.
C14_Witness ==
  /\ ret = [op |-> "remove", val |-> "a"]
  /\ Len(modules) = 2
  /\ modules[2] = "b"
  /\ modulesAndDependencies[1][2] # <<>>

\* C20: modules and modulesAndDependencies stay aligned: the same length and,
\* at every index, the same module, so the 'inconsistent module arrays'
\* branch of remove() is never taken.
C20_ArraysAligned ==
  /\ Len(modules) = Len(modulesAndDependencies)
  /\ \A i \in DOMAIN modules : modulesAndDependencies[i][1] = modules[i]

\* A remove() from the middle has happened and a later add() was accepted.
C20_Witness ==
  /\ ret = [op |-> "add", val |-> TRUE]
  /\ Len(modules) = 2
  /\ modules[1] = "b"
  /\ modules[2] = "a"

\* ------------------------------------------------------------ one worker run
\* An idle orchestrator on which add() has built a registry of up to three
\* modules, each declaring at most one dependency name.
InitRun ==
  /\ \E s \in ModuleSeqs :
       \E d \in [DOMAIN s -> DependencyLists(1)] :
         /\ modules = s
         /\ modulesAndDependencies = [i \in DOMAIN s |-> <<s[i], d[i]>>]
         /\ calls = Len(s)
  /\ status = "IDLE"
  /\ kernelThread = nullptr
  /\ cpc = "idle"
  /\ ret = [op |-> "none", val |-> FALSE]
  /\ worker = [w \in Workers |-> WorkerInit]
  /\ hookLog = [w \in Workers |-> <<>>]
  /\ aborted = FALSE

\* The controller starts, stops and releases it; the registry stays as built.
NextRun ==
  \/ Stop
  \/ StartStore
  \/ StartThread
  \/ StartReset
  \/ StartWait
  \/ StartReturn
  \/ DtorStore
  \/ DtorJoin
  \/ \E w \in Workers : WorkerStep(w)

RunSpec == InitRun /\ [][NextRun]_vars

\* The positions in worker w's log of its calls of a hook.
At(w, hook) == {k \in DOMAIN hookLog[w] : hookLog[w][k][1] = hook}

\* Every call of hook h1 by worker w came before every call of h2.
AllBefore(w, h1, h2) == \A i \in At(w, h1), j \in At(w, h2) : i < j

\* Worker w is in its tick loop or its halt loop.
PastInit(w) == worker[w].pc \in {"while", "tick", "halt"}

\* C16: in one worker run no tick is called before init has been called on
\* every module, every tick pass calls tick in the sequence of the init
\* calls, and no module is halted before it was initialised.
C16_InitThenTicksInInitOrder ==
  \A w \in Workers :
    LET inits == CalledBy(w, "init")
        ticks == CalledBy(w, "tick")
        halts == CalledBy(w, "halt")
    IN  /\ AllBefore(w, "init", "tick")
        /\ AllBefore(w, "init", "halt")
        /\ PastInit(w) => inits = worker[w].sortedModules
        /\ \A k \in DOMAIN ticks : ticks[k] = inits[((k - 1) % Len(inits)) + 1]
        /\ worker[w].pc = "tick" =>
             /\ Len(inits) = Len(worker[w].sortedModules)
             /\ worker[w].passes < MaxPasses =>
                  Len(ticks) = worker[w].passes * Len(inits) + worker[w].itr - 1
        /\ Range(halts) \subseteq Range(inits)

\* A worker is in the middle of a tick pass over two modules, one of which
\* depends on the other.
C16_Witness ==
  /\ worker["w1"].pc = "tick"
  /\ Len(worker["w1"].sortedModules) = 2
  /\ Len(CalledBy("w1", "tick")) = 1
  /\ \E i \in DOMAIN modulesAndDependencies : modulesAndDependencies[i][2] # <<>>

\* C17: the worker reads status only between tick passes: once a halt has
\* been called, or the worker stands before its first halt, every module
\* has been ticked the same number of times and no tick follows a halt.
C17_StopSeenBetweenPasses ==
  \A w \in Workers :
    LET inits == CalledBy(w, "init")
        ticks == CalledBy(w, "tick")
        count(m) == Cardinality({k \in DOMAIN ticks : ticks[k] = m})
    IN  /\ AllBefore(w, "tick", "halt")
        /\ (worker[w].pc = "halt" \/ At(w, "halt") # {}) =>
             \A m1, m2 \in Range(inits) : count(m1) = count(m2)

\* stop() was called in the middle of a tick pass over two modules and the
\* worker has gone on to the halt loop.
C17_Witness ==
  /\ worker["w1"].pc = "halt"
  /\ ret.op = "stop"
  /\ Len(CalledBy("w1", "tick")) = 2
  /\ Len(CalledBy("w1", "halt")) = 1

\* ------------------------------------------------------ hooks and the registry
\* Worker w makes a hook call in this step; the module it is made on.
HookCall(w) == Len(hookLog'[w]) = Len(hookLog[w]) + 1

LastCalled(w) == hookLog'[w][Len(hookLog'[w])][2]

\* C19: no hook is ever called on a module that remove() has handed back to
\* the caller: every init, tick and halt call is on a module that is in the
\* registry at the time of the call.
C19_NoHookOnRemovedModule ==
  [][\A w \in Workers : HookCall(w) => LastCalled(w) \in Range(modules)]_vars

\* -------------------------------------------------- duplicate dependency names
\* A dependency list with every repeated name dropped (the first kept).
Once(deps) ==
  SelectSeq([k \in DOMAIN deps |-> <<k, deps[k]>>],
            LAMBDA p : \A j \in 1..(p[1] - 1) : deps[j] # p[2])

WithoutDuplicates(mad) ==
  [i \in DOMAIN mad |->
     <<mad[i][1], [k \in DOMAIN Once(mad[i][2]) |-> Once(mad[i][2])[k][2]]>>]

\* Some dependency list of the registry names a module more than once.
HasDuplicates(mad) ==
  \E i \in DOMAIN mad : Cardinality(Range(mad[i][2])) < Len(mad[i][2])

\* A worker just spawned on a registry that declares some name twice.
InitDup == InitSort /\ HasDuplicates(modulesAndDependencies)

DupSpec == InitDup /\ [][NextSort]_vars

\* What the sort of worker w returned.
Returned(w) ==
  [ok |-> worker[w].result = "sorted", sortedModules |-> worker[w].sortedModules]

\* C18: declaring a dependency name more than once changes nothing: the
\* registry has the same possible sort results (failure, or each sorted
\* order) as the registry with every repeated name declared once, and what
\* a run of the sort returns is one of them.
C18_DuplicateDependenciesNoOp ==
  /\ worker["w1"].pc = "createGraph" =>
       sort(modulesAndDependencies) = sort(WithoutDuplicates(modulesAndDependencies))
  /\ SortReturned("w1") =>
       Returned("w1") \in sort(WithoutDuplicates(modulesAndDependencies))

\* Three modules were sorted, one of them declaring the same name twice.
C18_Witness ==
  /\ worker["w1"].result = "sorted"
  /\ Len(worker["w1"].sortedModules) = 3
  /\ \E i \in DOMAIN modulesAndDependencies :
       LET deps == modulesAndDependencies[i][2]
       IN  Len(deps) = 2 /\ deps[1] = deps[2]


====
